---------------------------- MODULE Spec2Model ----------------------------
(***************************************************************************)
(* District-name reconciliation of TelanganaDataViz:                       *)
(*   DataProcessor.normalize_district_name and DataProcessor.match_districts*)
(* (src/utils/data_processor.py), the district lookups, distances and maps *)
(* of MapUtils (src/utils/map_utils.py), and the call that main makes to   *)
(* match_districts (src/app.py).                                           *)
(*                                                                         *)
(* A Python str is a sequence of one-character strings.  A pandas table is *)
(* a record [cols, rows]: cols is the set of column names, rows a sequence *)
(* of records [idx, cells], idx the row's index label and cells a function *)
(* from cols to values.                                                    *)
(***************************************************************************)
EXTENDS Integers, Sequences, FiniteSets, TLC

(***************************************************************************)
(* Bounds of the model.                                                    *)
(***************************************************************************)
\* longest core of a generated raw name (normalisation inputs)
MaxCore == 2
\* most features in the boundary set
MaxCanon == 2
\* most rows in an uploaded table
MaxRows == 2
\* largest longitude and latitude of a clicked point
MaxCoord == 6

(***************************************************************************)
(* Characters and Python's str primitives.                                 *)
(***************************************************************************)
LowerLetters == <<"a", "b", "c", "d", "e", "i", "r", "s", "t">>
UpperLetters == <<"A", "B", "C", "D", "E", "I", "R", "S", "T">>
NLetters == Len(LowerLetters)

\* the missing value (None / NaN) of a cell or property: no str equals it
NaN == <<"NaN">>

\* pd.isna
isna(x) == x = NaN

LowerSet == {LowerLetters[i] : i \in 1..NLetters}
UpperSet == {UpperLetters[i] : i \in 1..NLetters}
IsLowerCh(c) == c \in LowerSet
IsUpperCh(c) == c \in UpperSet
\* str.isspace for one character: the model's only whitespace is the blank
IsSpaceCh(c) == c = " "
\* a cased character, as str.title sees it
IsCasedCh(c) == IsLowerCh(c) \/ IsUpperCh(c)

ToLower ==
    [c \in UpperSet |-> LowerLetters[CHOOSE i \in 1..NLetters : UpperLetters[i] = c]]
ToUpper ==
    [c \in LowerSet |-> UpperLetters[CHOOSE i \in 1..NLetters : LowerLetters[i] = c]]

\* str.lower / str.upper on one character
LowerCh(c) == IF IsUpperCh(c) THEN ToLower[c] ELSE c
UpperCh(c) == IF IsLowerCh(c) THEN ToUpper[c] ELSE c

\* str.lower
lower(s) == [i \in 1..Len(s) |-> LowerCh(s[i])]

\* whether old occurs in s at position i
OccursAt(s, i, old) ==
    /\ i + Len(old) - 1 <= Len(s)
    /\ \A k \in 1..Len(old) : s[i + k - 1] = old[k]

\* str.strip with no argument: s without its leading and trailing whitespace
strip(s) ==
    LET inked == {i \in 1..Len(s) : ~IsSpaceCh(s[i])}
    IN  IF inked = {} THEN <<>>
        ELSE SubSeq(s, CHOOSE i \in inked : \A j \in inked : i <= j,
                       CHOOSE i \in inked : \A j \in inked : i >= j)

\* s.replace(old, ""): every non-overlapping occurrence of old, scanned from
\* the left, is removed (old is never empty here); acc is the text kept so
\* far and i the position of the scan
RECURSIVE replace_scan(_, _, _, _)
replace_scan(s, old, i, acc) ==
    IF i > Len(s) THEN acc
    ELSE IF OccursAt(s, i, old) THEN replace_scan(s, old, i + Len(old), acc)
    ELSE replace_scan(s, old, i + 1, Append(acc, s[i]))

replace_with_empty(s, old) == replace_scan(s, old, 1, <<>>)

\* str.title: a cased character that follows a cased character is lowered,
\* any other cased character is raised
title(s) ==
    [i \in 1..Len(s) |->
        IF i > 1 /\ IsCasedCh(s[i - 1]) THEN LowerCh(s[i]) ELSE UpperCh(s[i])]

(***************************************************************************)
(* The affixes normalize_district_name removes.                            *)
(***************************************************************************)
WordDistrictCap == <<"D", "i", "s", "t", "r", "i", "c", "t">>
WordDistrictLow == <<"d", "i", "s", "t", "r", "i", "c", "t">>
WordDistrictUp == <<"D", "I", "S", "T", "R", "I", "C", "T">>
SuffixCap == <<" ">> \o WordDistrictCap
SuffixLow == <<" ">> \o WordDistrictLow
PrefixCap == WordDistrictCap \o <<" ">>
PrefixLow == WordDistrictLow \o <<" ">>

\* DataProcessor.normalize_district_name
normalize_district_name(name) ==
    IF isna(name) THEN <<>>
    ELSE LET s0 == strip(name)
             s1 == replace_with_empty(
                       replace_with_empty(s0, SuffixCap), SuffixLow)
             s2 == replace_with_empty(
                       replace_with_empty(s1, PrefixCap), PrefixLow)
         IN  title(s2)

(***************************************************************************)
(* fuzz.ratio of fuzzywuzzy: int(round(100 * 2*M / T)), T the two lengths  *)
(* added and M the characters matched by the Levenshtein matcher (the      *)
(* longest common subsequence); 100 for equal strings, 0 when one is empty.*)
(***************************************************************************)
Max2(a, b) == IF a >= b THEN a ELSE b

\* one row of the longest-common-subsequence table: prev is the row of the
\* characters before c, the result the row after c (both indexed 1..Len(b)+1)
RECURSIVE lcs_row(_, _, _, _, _)
lcs_row(c, b, prev, j, acc) ==
    IF j > Len(b) THEN acc
    ELSE LET v == IF c = b[j] THEN prev[j] + 1
                  ELSE Max2(prev[j + 1], acc[j])
         IN  lcs_row(c, b, prev, j + 1, Append(acc, v))

RECURSIVE lcs_from(_, _, _, _)
lcs_from(a, b, i, prev) ==
    IF i > Len(a) THEN prev[Len(b) + 1]
    ELSE lcs_from(a, b, i + 1, lcs_row(a[i], b, prev, 1, <<0>>))

lcs_len(a, b) == lcs_from(a, b, 1, [j \in 1..(Len(b) + 1) |-> 0])

\* int(round(100 * num / den)) with Python's round-half-to-even
intr_percent(num, den) ==
    LET q == (100 * num) \div den
        r == (100 * num) % den
    IN  IF 2 * r < den THEN q
        ELSE IF 2 * r > den THEN q + 1
        ELSE IF q % 2 = 0 THEN q ELSE q + 1

ratio(s1, s2) ==
    IF s1 = s2 THEN 100
    ELSE IF Len(s1) = 0 \/ Len(s2) = 0 THEN 0
    ELSE intr_percent(2 * lcs_len(s1, s2), Len(s1) + Len(s2))

(***************************************************************************)
(* pandas tables.                                                          *)
(***************************************************************************)
NoTable == [none |-> TRUE, cols |-> {}, rows |-> <<>>]

Table(cols, rows) == [none |-> FALSE, cols |-> cols, rows |-> rows]

\* t[c] = series: column c is added, or overwritten when t already has it;
\* series holds one value per row
SetColumn(t, c, series) ==
    Table(t.cols \cup {c},
          [i \in 1..Len(t.rows) |->
              [idx   |-> t.rows[i].idx,
               cells |-> [d \in t.cols \cup {c} |->
                             IF d = c THEN series[i]
                             ELSE t.rows[i].cells[d]]]])

\* t.drop(cs, axis=1)
DropColumns(t, cs) ==
    Table(t.cols \ cs,
          [i \in 1..Len(t.rows) |->
              [idx   |-> t.rows[i].idx,
               cells |-> [d \in t.cols \ cs |-> t.rows[i].cells[d]]]])

\* t[mask]: the rows whose entry of the boolean mask is true, in their order
RECURSIVE FilterSeq(_, _)
FilterSeq(rows, mask) ==
    IF rows = <<>> THEN <<>>
    ELSE IF Head(mask) THEN <<Head(rows)>> \o FilterSeq(Tail(rows), Tail(mask))
    ELSE FilterSeq(Tail(rows), Tail(mask))

FilterRows(t, mask) == Table(t.cols, FilterSeq(t.rows, mask))

\* t[c]: the values of column c, one per row
Column(t, c) == [i \in 1..Len(t.rows) |-> t.rows[i].cells[c]]

\* variant of Series.unique(): every value, repeated ones included
all_values(vals) == vals

\* Series.unique(): the distinct values in order of first appearance
RECURSIVE unique(_)
unique(vals) ==
    IF vals = <<>> THEN <<>>
    ELSE LET u == unique(SubSeq(vals, 1, Len(vals) - 1))
             v == vals[Len(vals)]
         IN  IF \E i \in 1..Len(u) : u[i] = v THEN u ELSE Append(u, v)

\* list.index: the first position of v (v is in the list where this is used)
index(list, v) ==
    CHOOSE i \in 1..Len(list) :
        list[i] = v /\ \A j \in 1..(i - 1) : list[j] # v

(***************************************************************************)
(* DataProcessor.match_districts, in three steps: the entry (column check, *)
(* copy and normalisation), one iteration of the matching loop, and the    *)
(* application of the mapping.                                             *)
(***************************************************************************)
HelperNormalized == "normalized_district"
HelperMatched == "matched_district"

\* the similarity a fuzzy match must exceed
Threshold == 80

VARIABLES
    geojson,              \* the boundary set: a sequence of features
    pc,                   \* idle | loop | done
    map_districts,        \* the district names of the features, in order
    map_districts_normalized, \* their normalized keys
    df,                   \* the caller's table
    district_col,         \* the caller's column name
    matched_df,           \* the working copy
    csv_districts,        \* the unique normalized keys the loop iterates
    visited,              \* how many of them the loop has visited
    district_mapping,     \* dict: normalized key -> canonical name
    unmatched_districts,  \* list of keys
    msgs,                 \* the st.error / st.info / st.warning calls made
    ret,                  \* the returned table, or NoTable for None
    nm_pc,                \* start | once | twice
    nm_in,                \* the argument of normalize_district_name
    nm_key,               \* normalize_district_name(nm_in)
    nm_key2,              \* normalize_district_name(nm_key)
    probe,                \* the arguments of the call that is compared
    probe_result,         \* what the first such call gave
    between,              \* whether another call ended since then
    mu_pc,                \* MapUtils: idle | called | recalled
    mu_op,                \* the MapUtils method called
    mu_arg,               \* its argument: a point, a district name or a pair of names
    mu_out,               \* its outcome
    mu_out2,              \* the outcome of the same call made again
    uploaded,             \* the caller's table as it was before the call
    main_pc,              \* main(): start | uploaded | aborted
    main_out              \* how main()'s call of match_districts ended

matchVars ==
    <<geojson, pc, map_districts, map_districts_normalized, df, district_col,
      matched_df, csv_districts, visited, district_mapping,
      unmatched_districts, msgs, ret>>
normVars == <<nm_pc, nm_in, nm_key, nm_key2>>
repVars == <<probe, probe_result, between>>
mapVars == <<mu_pc, mu_op, mu_arg, mu_out, mu_out2>>
mainVars == <<main_pc, main_out>>
appVars == <<uploaded, mainVars>>
vars == <<matchVars, normVars, repVars, mapVars, appVars>>

\* line 49
district_names(g) == [i \in 1..Len(g) |-> g[i].district]
\* line 50
normalized_names(names) ==
    [i \in 1..Len(names) |-> normalize_district_name(names[i])]

\* lines 72-79: the scan of the fuzzy pass from position i on; best is the
\* pair (best_match, best_score) so far
\* variants of the comparison of line 77
better_score_at_threshold(score, best_score) ==
    score > best_score /\ score >= Threshold
better_score_first_wins(score, best_score) ==
    best_score = 0 /\ score > Threshold
better_score_last_wins(score, best_score) ==
    score >= best_score /\ score > Threshold

better_score_after_other_calls(score, best_score) ==
    /\ IF between THEN score >= best_score ELSE score > best_score
    /\ score > Threshold

better_score(score, best_score) == score > best_score /\ score > Threshold

RECURSIVE fuzzy_scan(_, _, _, _)
fuzzy_scan(csv_district, norm, i, best) ==
    IF i > Len(norm) THEN best
    ELSE LET score == ratio(lower(csv_district), lower(norm[i]))
         IN  fuzzy_scan(csv_district, norm, i + 1,
                 IF better_score(score, best.score)
                 THEN [match |-> norm[i], score |-> score]
                 ELSE best)

fuzzy_best(csv_district, norm) ==
    fuzzy_scan(csv_district, norm, 1, [match |-> NaN, score |-> 0])

\* variant of line 44: a table without rows passes the check
has_column_or_no_rows(d, col) == col \in d.cols \/ d.rows = <<>>

\* line 44: district_col in df.columns
has_column(d, col) == col \in d.cols

\* variant of line 84: the fuzzy match is not shown
without_fuzzy_notice(log, key, name, score) == log

\* variant of line 63: no key is skipped
is_empty_key_never(csv_district) == FALSE

\* line 63: the empty key, which the loop skips
is_empty_key(csv_district) == csv_district = <<>>

\* "if best_match:" is false for None and for the empty str
truthy(s) == ~isna(s) /\ s # <<>>

\* dict lookup as Series.map does it: a key the dict lacks maps to NaN
EmptyDict == [k \in {} |-> NaN]
dict_get(d, k) == IF k \in DOMAIN d THEN d[k] ELSE NaN
dict_set(d, k, v) == (k :> v) @@ d

\* variant of line 53: matched_df is the caller's table itself
df_when_aliased(d, written) == written

\* line 53: matched_df is a copy of df, so what lines 56 and 89 write to it
\* leaves the caller's table d as it was
df_after_write(d, written) == d

\* lines 52-56: the copy with the column of normalized keys
normalized_copy(d, col) ==
    SetColumn(d, HelperNormalized,
              [i \in 1..Len(d.rows) |->
                  normalize_district_name(Column(d, col)[i])])

\* variant of line 89: only the first row of a key gets its canonical name
with_matched_first_row(t, mapping) ==
    SetColumn(t, HelperMatched,
              [i \in 1..Len(t.rows) |->
                  IF \E j \in 1..(i - 1) :
                         Column(t, HelperNormalized)[j] =
                             Column(t, HelperNormalized)[i]
                  THEN NaN
                  ELSE dict_get(mapping, Column(t, HelperNormalized)[i])])

\* line 89: the column of canonical names, NaN where the key is not mapped
with_matched(t, mapping) ==
    SetColumn(t, HelperMatched,
              [i \in 1..Len(t.rows) |->
                  dict_get(mapping, Column(t, HelperNormalized)[i])])

\* variant of line 92: the mask taken from the column of keys
only_matched_by_key(t) ==
    FilterRows(t, [i \in 1..Len(t.rows) |->
                      ~isna(t.rows[i].cells[HelperNormalized])])

\* line 92: the rows whose key was mapped
only_matched(t) ==
    FilterRows(t, [i \in 1..Len(t.rows) |->
                      ~isna(t.rows[i].cells[HelperMatched])])

\* variant of line 102: the district column takes the normalized key
rewritten_with_key(t, col) ==
    DropColumns(SetColumn(t, col, Column(t, HelperNormalized)),
                {HelperNormalized, HelperMatched})

\* lines 102-103: the district column rewritten, the helper columns dropped
rewritten(t, col) ==
    DropColumns(SetColumn(t, col, Column(t, HelperMatched)),
                {HelperNormalized, HelperMatched})

\* variant of line 68: the last position of the key instead of the first
exact_match_last(csv_district) ==
    map_districts[CHOOSE i \in 1..Len(map_districts_normalized) :
                     /\ map_districts_normalized[i] = csv_district
                     /\ \A j \in (i + 1)..Len(map_districts_normalized) :
                            map_districts_normalized[j] # csv_district]

\* lines 66-69: the canonical name of the exact pass
exact_match(csv_district) ==
    map_districts[index(map_districts_normalized, csv_district)]

\* the messages shown to the user
Msg(kind, key, name, score, names) ==
    [kind |-> kind, key |-> key, name |-> name, score |-> score,
     names |-> names]
ColumnNotFound == Msg("error: column not found", NaN, NaN, 0, <<>>)
NoMatches == Msg("error: no districts matched", NaN, NaN, 0, <<>>)
FuzzyInfo(key, name, score) == Msg("info: fuzzy matched", key, name, score, <<>>)
UnmatchedWarning(names) == Msg("warning: could not match", NaN, NaN, 0, names)

\* line 84: the st.info call of a fuzzy match, added to the calls made
with_fuzzy_notice(log, key, name, score) ==
    Append(log, FuzzyInfo(key, name, score))

(***************************************************************************)
(* Inputs.                                                                 *)
(***************************************************************************)
SeqsUpTo(S, n) == UNION {[1..k -> S] : k \in 0..n}

\* district properties of the candidate features
NameAbcd == <<"A", "b", "c", "d">>
NameAbcdSuffixed == <<"a", "b", "c", "d">> \o SuffixCap
NameAbce == <<"A", "b", "c", "e">>
NameAbcdee == <<"A", "b", "c", "d", "e", "e">>
CanonNames == {NameAbcd, NameAbcdSuffixed, NameAbce, NameAbcdee}

\* a district property that is lost whole in normalisation
NameDistrictOnly == WordDistrictCap \o <<" ", " ">> \o WordDistrictCap

Feature(name) == [district |-> name]
\* the boundary sets: their district names are pairwise different
BoundarySets ==
    {[i \in 1..Len(ns) |-> Feature(ns[i])] :
        ns \in {q \in SeqsUpTo(CanonNames, MaxCanon) :
                   \A i, j \in 1..Len(q) : q[i] = q[j] => i = j}}

\* the boundary sets that hold the name whose normalized key is empty
BlankBoundarySets ==
    {[i \in 1..Len(ns) |-> Feature(ns[i])] :
        ns \in {q \in SeqsUpTo({NameDistrictOnly, NameAbcd}, MaxCanon) :
                   /\ \A i, j \in 1..Len(q) : q[i] = q[j] => i = j
                   /\ \E i \in 1..Len(q) : q[i] = NameDistrictOnly}}

\* values of the district column of an upload
RawPaddedUpper == <<" ", "A", "B", "C", "D">>
RawAbcde == <<"a", "b", "c", "d", "e">>
RawValues == {NaN, <<" ">>, RawPaddedUpper, RawAbcde}
\* the payload column: the same value in every row (rows may then be exact
\* duplicates), or a different value in every row
PayloadPatterns == {"same", "distinct"}
payload(pattern, i) == IF pattern = "same" THEN 1 ELSE i

\* the column names of an upload: <<district column, payload column>>
Schemas ==
    {<<"district", "value">>,
     <<"district", HelperNormalized>>,
     <<HelperMatched, "value">>}
\* the column names a caller may ask for
AbsentColumn == "area"

Uploads ==
    {Table({sch[1], sch[2]},
           [i \in 1..Len(vs) |->
               [idx   |-> i,
                cells |-> (sch[1] :> vs[i]) @@ (sch[2] :> payload(pat, i))]]) :
        sch \in Schemas, vs \in SeqsUpTo(RawValues, MaxRows),
        pat \in PayloadPatterns}

\* the district column of an upload (the one that holds names)
DistrictColumnOf(d) ==
    CHOOSE c \in d.cols : \E sch \in Schemas : sch[1] = c /\ d.cols = {sch[1], sch[2]}

\* raw names for normalize_district_name: blank, prefix, core, suffix, blank
CoreAlphabet == {"a", "B", " "}
Leads == {<<>>, <<" ">>}
Prefixes == {<<>>, PrefixCap, PrefixLow, WordDistrictUp \o <<" ">>}
Suffixes == {<<>>, SuffixCap, SuffixLow, <<" ">> \o WordDistrictUp}
\* raw names that hold an affix between two letters
InteriorNames ==
    {<<"a">> \o m \o <<"B">> : m \in {SuffixCap, SuffixLow, PrefixCap, PrefixLow}}
NameInputs ==
    {NaN} \cup InteriorNames \cup
    {l \o p \o c \o x \o t :
        l \in Leads, p \in Prefixes, c \in SeqsUpTo(CoreAlphabet, MaxCore),
        x \in Suffixes, t \in Leads}

(***************************************************************************)
(* The state machine of match_districts.                                   *)
(***************************************************************************)
MatchIdle ==
    /\ pc = "idle"
    /\ map_districts = <<>>
    /\ map_districts_normalized = <<>>
    /\ df = NoTable
    /\ district_col = AbsentColumn
    /\ matched_df = NoTable
    /\ csv_districts = <<>>
    /\ visited = 0
    /\ district_mapping = EmptyDict
    /\ unmatched_districts = <<>>
    /\ msgs = <<>>
    /\ ret = NoTable

NormIdle ==
    /\ nm_pc = "start"
    /\ nm_in = NaN
    /\ nm_key = <<>>
    /\ nm_key2 = <<>>

\* no call is being compared
NoCall == [df |-> NoTable, col |-> AbsentColumn]
NoResult == [known |-> FALSE]
RepIdle ==
    /\ probe = NoCall
    /\ probe_result = NoResult
    /\ between = FALSE

\* no MapUtils method was called
NoOutcome == [out |-> "none"]
MapIdle ==
    /\ mu_pc = "idle"
    /\ mu_op = "none"
    /\ mu_arg = <<>>
    /\ mu_out = NoOutcome
    /\ mu_out2 = NoOutcome

\* main() has not read an upload, match_districts was not called
AppIdle ==
    /\ uploaded = NoTable
    /\ main_pc = "start"
    /\ main_out = NoOutcome

Init ==
    /\ geojson \in BoundarySets
    /\ MatchIdle
    /\ NormIdle
    /\ RepIdle
    /\ MapIdle
    /\ AppIdle

\* lines 40-60: the call, up to the start of the loop
Enter(d, col) ==
    /\ pc = "idle"
    /\ district_col' = col
    /\ IF ~has_column(d, col)
       THEN /\ df' = d
            /\ msgs' = <<ColumnNotFound>>
            /\ ret' = NoTable
            /\ pc' = "done"
            /\ UNCHANGED <<map_districts, map_districts_normalized,
                           matched_df, csv_districts, visited,
                           district_mapping, unmatched_districts>>
       ELSE /\ df' = df_after_write(d, normalized_copy(d, col))
            /\ map_districts' = district_names(geojson)
            /\ map_districts_normalized' =
                   normalized_names(district_names(geojson))
            /\ matched_df' = normalized_copy(d, col)
            /\ csv_districts' =
                   unique(Column(normalized_copy(d, col), HelperNormalized))
            /\ visited' = 0
            /\ district_mapping' = EmptyDict
            /\ unmatched_districts' = <<>>
            /\ pc' = "loop"
            /\ UNCHANGED <<msgs, ret>>
    /\ uploaded' = d
    /\ UNCHANGED <<geojson, normVars, repVars, mapVars, mainVars>>

\* lines 62-86: one iteration of the loop over the unique keys
MatchKey ==
    /\ pc = "loop"
    /\ visited < Len(csv_districts)
    /\ LET csv_district == csv_districts[visited + 1]
           norm == map_districts_normalized
           best == fuzzy_best(csv_district, norm)
       IN  IF is_empty_key(csv_district)
           THEN UNCHANGED <<district_mapping, unmatched_districts, msgs>>
           ELSE IF \E i \in 1..Len(norm) : norm[i] = csv_district
           THEN /\ district_mapping' =
                       dict_set(district_mapping, csv_district,
                                exact_match(csv_district))
                /\ UNCHANGED <<unmatched_districts, msgs>>
           ELSE IF truthy(best.match)
           THEN /\ district_mapping' =
                       dict_set(district_mapping, csv_district,
                                map_districts[index(norm, best.match)])
                /\ msgs' = with_fuzzy_notice(msgs, csv_district,
                                 map_districts[index(norm, best.match)],
                                 best.score)
                /\ UNCHANGED unmatched_districts
           ELSE /\ unmatched_districts' =
                       Append(unmatched_districts, csv_district)
                /\ UNCHANGED <<district_mapping, msgs>>
    /\ visited' = visited + 1
    /\ UNCHANGED <<geojson, pc, map_districts, map_districts_normalized, df,
                   district_col, matched_df, csv_districts, ret, normVars,
                   repVars, mapVars, appVars>>

\* lines 88-105: the mapping applied, the unmatched rows dropped, the result;
\* line 92 binds matched_df to a new table, which lines 102-103 write to
Finish ==
    /\ pc = "loop"
    /\ visited = Len(csv_districts)
    /\ LET kept == only_matched(with_matched(matched_df, district_mapping))
           warned == IF unmatched_districts # <<>>
                     THEN Append(msgs, UnmatchedWarning(unmatched_districts))
                     ELSE msgs
       IN  IF kept.rows = <<>>
           THEN /\ matched_df' = kept
                /\ msgs' = Append(warned, NoMatches)
                /\ ret' = NoTable
           ELSE /\ matched_df' = rewritten(kept, district_col)
                /\ msgs' = warned
                /\ ret' = rewritten(kept, district_col)
    /\ df' = df_after_write(df, with_matched(matched_df, district_mapping))
    /\ pc' = "done"
    /\ UNCHANGED <<geojson, map_districts, map_districts_normalized,
                   district_col, csv_districts, visited, district_mapping,
                   unmatched_districts, normVars, repVars, mapVars, appVars>>

\* the caller: an upload and a column name, present in it or not
CallWithColumn ==
    /\ pc = "idle"
    /\ \E d \in Uploads : Enter(d, DistrictColumnOf(d))

CallWithAbsentColumn ==
    /\ pc = "idle"
    /\ \E d \in Uploads : Enter(d, AbsentColumn)

Next ==
    \/ CallWithColumn
    \/ CallWithAbsentColumn
    \/ MatchKey
    \/ Finish

Spec == Init /\ [][Next]_vars

(***************************************************************************)
(* Calls of match_districts one after another: each call returns, its      *)
(* locals are gone, and the next call starts.  One call, chosen beforehand, *)
(* is compared: what its first run gave is kept.                           *)
(***************************************************************************)
\* the boundary sets of the repeated calls
RepeatBoundarySets ==
    {g \in BoundarySets :
        district_names(g) \in {<<NameAbcd, NameAbce>>, <<NameAbce, NameAbcd>>,
                               <<NameAbcdee>>}}
\* the calls that are compared: two-row uploads
ProbeCalls ==
    {[df |-> Table({"district", "value"},
                   [i \in 1..2 |->
                       [idx   |-> i,
                        cells |-> ("district" :> vs[i]) @@ ("value" :> i)]]),
      col |-> "district"] :
        vs \in {<<RawPaddedUpper, RawAbcde>>, <<RawAbcde, NaN>>}}

\* what a call gave: the mapping, the unmatched names, the messages and the
\* returned table
Result ==
    [known |-> TRUE, mapping |-> district_mapping,
     unmatched |-> unmatched_districts, msgs |-> msgs, ret |-> ret]

RepeatInit ==
    /\ geojson \in RepeatBoundarySets
    /\ MatchIdle
    /\ NormIdle
    /\ probe \in ProbeCalls
    /\ probe_result = NoResult
    /\ between = FALSE
    /\ MapIdle
    /\ AppIdle

\* lines 46, 99, 105: the call returns and its locals are released
Return ==
    /\ pc = "done"
    /\ LET same == df = probe.df /\ district_col = probe.col
       IN  /\ probe_result' =
                  IF same /\ ~probe_result.known THEN Result ELSE probe_result
           /\ between' = (between \/ (~same /\ probe_result.known))
    /\ pc' = "idle"
    /\ map_districts' = <<>>
    /\ map_districts_normalized' = <<>>
    /\ df' = NoTable
    /\ district_col' = AbsentColumn
    /\ matched_df' = NoTable
    /\ csv_districts' = <<>>
    /\ visited' = 0
    /\ district_mapping' = EmptyDict
    /\ unmatched_districts' = <<>>
    /\ msgs' = <<>>
    /\ ret' = NoTable
    /\ uploaded' = NoTable
    /\ UNCHANGED <<geojson, probe, normVars, mapVars, mainVars>>

RepeatNext == Next \/ Return

SpecRepeat == RepeatInit /\ [][RepeatNext]_vars

(***************************************************************************)
(* Uploads whose district values carry blanks, capitals, the suffix        *)
(* " District" or a dropped letter.                                        *)
(***************************************************************************)
RawPaddedSuffixed == <<" ", "a", "b", "c", "d">> \o SuffixCap \o <<" ">>
ScenarioValues == {RawPaddedSuffixed, RawPaddedUpper, RawAbcde}
ScenarioUploads ==
    {Table({"district", "value"},
           [i \in 1..Len(vs) |->
               [idx   |-> i,
                cells |-> ("district" :> vs[i]) @@ ("value" :> i)]]) :
        vs \in SeqsUpTo(ScenarioValues, MaxRows)}

CallScenario ==
    /\ pc = "idle"
    /\ \E d \in ScenarioUploads : Enter(d, "district")

CallScenarioAbsent ==
    /\ pc = "idle"
    /\ \E d \in ScenarioUploads : Enter(d, AbsentColumn)

ScenarioNext ==
    \/ CallScenario
    \/ CallScenarioAbsent
    \/ MatchKey
    \/ Finish

SpecScenario == Init /\ [][ScenarioNext]_vars

\* the same calls against a boundary set with a name whose key is empty
BlankInit ==
    /\ geojson \in BlankBoundarySets
    /\ MatchIdle
    /\ NormIdle
    /\ RepIdle
    /\ MapIdle
    /\ AppIdle

SpecBlank == BlankInit /\ [][Next]_vars

(***************************************************************************)
(* normalize_district_name applied once and then to its own result.        *)
(***************************************************************************)
NormInit ==
    /\ geojson = <<>>
    /\ MatchIdle
    /\ nm_pc = "start"
    /\ nm_in \in NameInputs
    /\ nm_key = <<>>
    /\ nm_key2 = <<>>
    /\ RepIdle
    /\ MapIdle
    /\ AppIdle

NormalizeOnce ==
    /\ nm_pc = "start"
    /\ nm_key' = normalize_district_name(nm_in)
    /\ nm_pc' = "once"
    /\ UNCHANGED <<nm_in, nm_key2, matchVars, repVars, mapVars, appVars>>

NormalizeAgain ==
    /\ nm_pc = "once"
    /\ nm_key2' = normalize_district_name(nm_key)
    /\ nm_pc' = "twice"
    /\ UNCHANGED <<nm_in, nm_key, matchVars, repVars, mapVars, appVars>>

NormNext == NormalizeOnce \/ NormalizeAgain

SpecNormalize == NormInit /\ [][NormNext]_vars

(***************************************************************************)
(* MapUtils (src/utils/map_utils.py).  A position is <<lng, lat>>, a ring  *)
(* a sequence of positions that ends where it starts, the coordinates of a *)
(* Polygon a sequence of rings (the exterior first) and those of a         *)
(* MultiPolygon a sequence of such sequences.                              *)
(***************************************************************************)
Polygon(rings) == [type |-> "Polygon", coordinates |-> rings]
MultiPolygon(polys) == [type |-> "MultiPolygon", coordinates |-> polys]

\* Python's None as a returned value
None == [none |-> TRUE]
\* how a call ends: with a value, or with an exception
Returned(v) == [out |-> "return", val |-> v]
Raised(exc) == [out |-> "raise", exc |-> exc]

\* shapely: whether p lies on the segment from a to b
OnEdge(p, a, b) ==
    /\ (b[1] - a[1]) * (p[2] - a[2]) = (b[2] - a[2]) * (p[1] - a[1])
    /\ (a[1] <= p[1] /\ p[1] <= b[1]) \/ (b[1] <= p[1] /\ p[1] <= a[1])
    /\ (a[2] <= p[2] /\ p[2] <= b[2]) \/ (b[2] <= p[2] /\ p[2] <= a[2])

\* whether the ray from p towards greater longitude crosses the segment
EdgeCrossed(p, a, b) ==
    /\ (a[2] > p[2]) # (b[2] > p[2])
    /\ LET dy == b[2] - a[2]
           lhs == (p[1] - a[1]) * dy
           rhs == (b[1] - a[1]) * (p[2] - a[2])
       IN  IF dy > 0 THEN lhs < rhs ELSE lhs > rhs

OnRing(p, ring) ==
    \E i \in 1..(Len(ring) - 1) : OnEdge(p, ring[i], ring[i + 1])

\* p lies in the interior of the area the ring encloses
InsideRing(p, ring) ==
    /\ ~OnRing(p, ring)
    /\ Cardinality({i \in 1..(Len(ring) - 1) :
                       EdgeCrossed(p, ring[i], ring[i + 1])}) % 2 = 1

\* Polygon.contains(Point): inside the exterior ring and neither inside nor
\* on a hole; a polygon without rings is empty and contains nothing
polygon_contains(rings, p) ==
    /\ rings # <<>>
    /\ InsideRing(p, rings[1])
    /\ \A h \in 2..Len(rings) : ~InsideRing(p, rings[h]) /\ ~OnRing(p, rings[h])

\* shape(geometry).contains(point)
contains(geometry, p) ==
    IF geometry.type = "Polygon"
    THEN polygon_contains(geometry.coordinates, p)
    ELSE \E k \in 1..Len(geometry.coordinates) :
             polygon_contains(geometry.coordinates[k], p)

\* variant of lines 244-247: the last feature that contains the point
RECURSIVE last_containing(_, _, _)
last_containing(features, i, point) ==
    IF i > Len(features) THEN None
    ELSE LET later == last_containing(features, i + 1, point)
         IN  IF later # None THEN later
             ELSE IF contains(features[i].geometry, point)
                  THEN features[i].district
                  ELSE None

\* lines 244-249: the loop over the features from position i on
RECURSIVE first_containing(_, _, _)
first_containing(features, i, point) ==
    IF i > Len(features) THEN None
    ELSE IF contains(features[i].geometry, point) THEN features[i].district
    ELSE first_containing(features, i + 1, point)

\* MapUtils.get_district_from_coordinates: Point(lng, lat)
get_district_from_coordinates(lat, lng, geojson_data) ==
    Returned(first_containing(geojson_data, 1, <<lng, lat>>))

\* the concatenation of a sequence of sequences
RECURSIVE flatten(_)
flatten(seqs) ==
    IF seqs = <<>> THEN <<>> ELSE Head(seqs) \o flatten(Tail(seqs))

\* min() and max() of a list of numbers that is not empty
min_of(vals) ==
    CHOOSE v \in {vals[i] : i \in 1..Len(vals)} :
        \A i \in 1..Len(vals) : v <= vals[i]
max_of(vals) ==
    CHOOSE v \in {vals[i] : i \in 1..Len(vals)} :
        \A i \in 1..Len(vals) : v >= vals[i]

\* lines 265-270 and 277-282: the box of a list of positions
box(coords) ==
    LET lats == [i \in 1..Len(coords) |-> coords[i][2]]
        lngs == [i \in 1..Len(coords) |-> coords[i][1]]
    IN  [min_lat |-> min_of(lats), max_lat |-> max_of(lats),
         min_lng |-> min_of(lngs), max_lng |-> max_of(lngs)]

\* the positions of the features that bear the name
named(features, district_name) ==
    {i \in 1..Len(features) : features[i].district = district_name}
first_named(features, district_name) ==
    CHOOSE i \in named(features, district_name) :
        \A j \in named(features, district_name) : i <= j

\* variant of lines 259-264: only the first polygon of a MultiPolygon counts
bounds_of_first_part(geometry) ==
    IF geometry.coordinates = <<>> THEN Raised("IndexError")
    ELSE IF geometry.type = "MultiPolygon"
    THEN LET all == flatten(geometry.coordinates[1])
         IN  IF all # <<>> THEN Returned(box(all)) ELSE Returned(None)
    ELSE LET coords == geometry.coordinates[1]
         IN  IF coords = <<>> THEN Raised("ValueError")
             ELSE Returned(box(coords))

\* lines 257-282: the box of one feature's geometry
bounds_of(geometry) ==
    IF geometry.coordinates = <<>> THEN Raised("IndexError")
    ELSE IF geometry.type = "MultiPolygon"
    THEN LET all == flatten(flatten(geometry.coordinates))
         IN  IF all # <<>> THEN Returned(box(all)) ELSE Returned(None)
    ELSE LET coords == geometry.coordinates[1]
         IN  IF coords = <<>> THEN Raised("ValueError")
             ELSE Returned(box(coords))

\* MapUtils.get_district_bounds
get_district_bounds(features, district_name) ==
    IF named(features, district_name) = {} THEN Returned(None)
    ELSE bounds_of(features[first_named(features, district_name)].geometry)

\* the sum of a sequence of integers
RECURSIVE sum(_)
sum(vals) == IF vals = <<>> THEN 0 ELSE Head(vals) + sum(Tail(vals))

\* twice the signed area of a ring, and six times its first moments
ring_cross(ring, i) == ring[i][1] * ring[i + 1][2] - ring[i + 1][1] * ring[i][2]
ring_area2(ring) ==
    sum([i \in 1..(Len(ring) - 1) |-> ring_cross(ring, i)])
ring_moment(ring, axis) ==
    sum([i \in 1..(Len(ring) - 1) |->
            (ring[i][axis] + ring[i + 1][axis]) * ring_cross(ring, i)])
\* the same for a polygon: the exterior counts positive, the holes negative
ring_sign(ring, h) ==
    (IF ring_area2(ring) < 0 THEN -1 ELSE 1) * (IF h = 1 THEN 1 ELSE -1)
polygon_area2(rings) ==
    sum([h \in 1..Len(rings) |-> ring_sign(rings[h], h) * ring_area2(rings[h])])
polygon_moment(rings, axis) ==
    sum([h \in 1..Len(rings) |->
            ring_sign(rings[h], h) * ring_moment(rings[h], axis)])

\* the polygons of a geometry
parts(geometry) ==
    IF geometry.type = "Polygon" THEN <<geometry.coordinates>>
    ELSE geometry.coordinates
\* shape(geometry).is_empty: no position at all
is_empty(geometry) == flatten(flatten(parts(geometry))) = <<>>

\* a float that is the quotient of two integers
Quotient(num, den) == [num |-> num, den |-> den]
NotANumber == [nan |-> TRUE]

\* shape(geometry).centroid as (lat, lng): the area-weighted centroid
centroid(geometry) ==
    LET ps == parts(geometry)
        area2 == sum([k \in 1..Len(ps) |-> polygon_area2(ps[k])])
        mx == sum([k \in 1..Len(ps) |-> polygon_moment(ps[k], 1)])
        my == sum([k \in 1..Len(ps) |-> polygon_moment(ps[k], 2)])
    IN  <<Quotient(my, 3 * area2), Quotient(mx, 3 * area2)>>

\* lines 379-381 for one feature: the centroid of an empty geometry is an
\* empty point, whose y raises in one version of shapely and is nan in another
centroid_outcomes(geometry) ==
    IF is_empty(geometry)
    THEN {Raised("IndexError"), Returned(<<NotANumber, NotANumber>>)}
    ELSE {Returned(centroid(geometry))}

\* MapUtils.get_district_centroid: what the call can give
get_district_centroid(features, district_name) ==
    IF named(features, district_name) = {} THEN {Returned(None)}
    ELSE centroid_outcomes(
             features[first_named(features, district_name)].geometry)

(***************************************************************************)
(* The floats of the distance computation, in fixed point: Scale units to  *)
(* one.  Rounding is towards zero, so that, as with IEEE floats, the       *)
(* rounded value of -x is minus the rounded value of x.                    *)
(***************************************************************************)
Scale == 10 ^ 4
Fixed(units) == [units |-> units]
is_nan(v) == v = NotANumber

\* a / b rounded towards zero
div(a, b) == IF a >= 0 THEN a \div b ELSE 0 - ((0 - a) \div b)
\* the product of two fixed-point numbers
mul(a, b) == div(a * b, Scale)

\* math.radians of a coordinate in degrees: pi / 180 is 0.017453
radians(q) == div(q.num * 17453, q.den * 100)

\* math.sin and math.cos by their series, for the angles of the coordinates
sin(x) ==
    x - div(mul(mul(x, x), x), 6) + div(mul(mul(mul(x, x), x), mul(x, x)), 120)
cos(x) == Scale - div(mul(x, x), 2) + div(mul(mul(x, x), mul(x, x)), 24)

\* math.sqrt of a number given in units of 1 / Scale^2, in units of 1 / Scale
RECURSIVE sqrt_from(_, _)
sqrt_from(a, x) ==
    LET n == (x + a \div x) \div 2
    IN  IF n >= x THEN x ELSE sqrt_from(a, n)
sqrt(a) == IF a = 0 THEN 0 ELSE sqrt_from(a, a)

\* math.asin by its series
asin(y) ==
    y + div(mul(mul(y, y), y), 6) + div(3 * mul(mul(mul(y, y), y), mul(y, y)), 40)

\* line 398
r == 6371

\* variant of line 394: the cosine of the first latitude taken twice
haversine_first_latitude(lat1, lon1, lat2, lon2) ==
    IF is_nan(lat1) \/ is_nan(lon1) \/ is_nan(lat2) \/ is_nan(lon2)
    THEN NotANumber
    ELSE LET dlat == radians(lat2) - radians(lat1)
             dlon == radians(lon2) - radians(lon1)
             a == sin(div(dlat, 2)) * sin(div(dlat, 2))
                  + mul(mul(cos(radians(lat1)), cos(radians(lat1))),
                        sin(div(dlon, 2))) * sin(div(dlon, 2))
             c == 2 * asin(sqrt(a))
         IN  Fixed(c * r)

\* MapUtils.haversine_distance: kilometres, in units of 1 / Scale; a is kept
\* in units of 1 / Scale^2.  A nan among the arguments gives nan.
haversine_distance(lat1, lon1, lat2, lon2) ==
    IF is_nan(lat1) \/ is_nan(lon1) \/ is_nan(lat2) \/ is_nan(lon2)
    THEN NotANumber
    ELSE LET dlat == radians(lat2) - radians(lat1)
             dlon == radians(lon2) - radians(lon1)
             a == sin(div(dlat, 2)) * sin(div(dlat, 2))
                  + mul(mul(cos(radians(lat1)), cos(radians(lat2))),
                        sin(div(dlon, 2))) * sin(div(dlon, 2))
             c == 2 * asin(sqrt(a))
         IN  Fixed(c * r)

\* lines 365-371 for one outcome of each of the two centroid calls
distance_of(o1, o2) ==
    IF o1.out = "raise" THEN o1
    ELSE IF o2.out = "raise" THEN o2
    ELSE IF o1.val = None \/ o2.val = None THEN Returned(None)
    ELSE Returned(haversine_distance(o1.val[1], o1.val[2],
                                     o2.val[1], o2.val[2]))

\* MapUtils.calculate_distance_between_districts: what the call can give
calculate_distance_between_districts(features, district1, district2) ==
    {distance_of(o1, o2) :
        o1 \in get_district_centroid(features, district1),
        o2 \in get_district_centroid(features, district2)}

\* lines 12-14
center_lat == Quotient(181124, 10 ^ 4)
center_lng == Quotient(790193, 10 ^ 4)
zoom_start == 7

\* a folium.Map as far as the callers look at it: where it is centred, its
\* zoom, and for a distance map the distance on its line
Map(kind, location, zoom, distance) ==
    [kind |-> kind, location |-> location, zoom_start |-> zoom,
     distance |-> distance]

\* MapUtils.create_basic_map
create_basic_map == Map("basic", <<center_lat, center_lng>>, zoom_start, None)

\* lines 413-414: the mean of two coordinates
mean(q1, q2) ==
    Quotient(q1.num * q2.den + q2.num * q1.den, 2 * q1.den * q2.den)

\* variant of lines 418-425: the two middle buckets exchanged
zoom_middle_exchanged(distance) ==
    IF is_nan(distance) THEN 7
    ELSE IF distance.units < 50 * Scale THEN 10
    ELSE IF distance.units < 100 * Scale THEN 8
    ELSE IF distance.units < 200 * Scale THEN 9
    ELSE 7

\* lines 418-425: the zoom of a distance; every comparison with nan is false
zoom_of(distance) ==
    IF is_nan(distance) THEN 7
    ELSE IF distance.units < 50 * Scale THEN 10
    ELSE IF distance.units < 100 * Scale THEN 9
    ELSE IF distance.units < 200 * Scale THEN 8
    ELSE 7

\* lines 406-431 for one outcome of each of the two centroid calls;
\* folium.Map raises ValueError for a location that holds nan
distance_map_of(o1, o2) ==
    IF o1.out = "raise" THEN o1
    ELSE IF o2.out = "raise" THEN o2
    ELSE IF o1.val = None \/ o2.val = None THEN Returned(create_basic_map)
    ELSE IF \E i \in 1..2 : is_nan(o1.val[i]) \/ is_nan(o2.val[i])
    THEN Raised("ValueError")
    ELSE LET distance == haversine_distance(o1.val[1], o1.val[2],
                                            o2.val[1], o2.val[2])
         IN  Returned(Map("distance",
                          <<mean(o1.val[1], o2.val[1]),
                            mean(o1.val[2], o2.val[2])>>,
                          zoom_of(distance), distance))

\* MapUtils.create_distance_map: what the call can give
create_distance_map(features, district1, district2) ==
    {distance_map_of(o1, o2) :
        o1 \in get_district_centroid(features, district1),
        o2 \in get_district_centroid(features, district2)}

\* line 76: the dtype of a column; the district columns of the uploads hold
\* str values, their other columns integers
dtype(data, col) ==
    IF \E sch \in Schemas : sch[1] = col THEN "object" ELSE "int64"

\* line 77: dropna().unique()[:5]
sample_values(data, col) ==
    LET present == unique(FilterSeq(Column(data, col),
                             [i \in 1..Len(data.rows) |->
                                 ~isna(Column(data, col)[i])]))
    IN  SubSeq(present, 1, IF Len(present) < 5 THEN Len(present) ELSE 5)

\* lines 75-83: the columns of str values of which a sampled value is the
\* name of a feature
columns_with_districts(features, data) ==
    {col \in data.cols :
        /\ dtype(data, col) = "object"
        /\ \E i \in 1..Len(sample_values(data, col)) :
               \E k \in 1..Len(features) :
                   features[k].district = sample_values(data, col)[i]}

\* lines 127-137: the value a feature gets: that of the first row of its
\* district as a float, None without such a row
value_to_add(data, district_column, metric_col, district_name) ==
    LET rows == {i \in 1..Len(data.rows) :
                    data.rows[i].cells[district_column] = district_name}
    IN  IF rows = {} THEN None
        ELSE Fixed(Scale * data.rows[CHOOSE i \in rows :
                                        \A j \in rows : i <= j].cells[metric_col])

\* lines 124-137: the loop that writes the metric into the properties of
\* every feature
with_metrics(features, data, district_column, metric_col) ==
    [i \in 1..Len(features) |->
        (metric_col :> value_to_add(data, district_column, metric_col,
                                    features[i].district)) @@ features[i]]

\* the choropleth map: the features drawn, and the ends of the colour scale
Choropleth(features, min_val, max_val) ==
    [kind |-> "choropleth", location |-> <<center_lat, center_lng>>,
     zoom_start |-> zoom_start, features |-> features,
     min_val |-> min_val, max_val |-> max_val]

\* MapUtils.create_choropleth_map: the map returned, whether st.error was
\* called, and the features the loop of lines 124-137 wrote
create_choropleth_map(features, data, metric_col) ==
    LET found == columns_with_districts(features, data)
    IN  IF found = {}
        THEN [map |-> create_basic_map, error |-> TRUE, written |-> features]
        ELSE LET district_column == CHOOSE col \in found : TRUE
                 drawn == with_metrics(features, data, district_column,
                                       metric_col)
             IN  [map |-> Choropleth(drawn,
                                     min_of(Column(data, metric_col)),
                                     max_of(Column(data, metric_col))),
                  error |-> FALSE, written |-> drawn]

\* variant of line 122: no copy is taken, the loop writes to the stored data
stored_when_aliased(stored, written) == written

\* line 122: the loop writes to a deep copy of self.geojson_data, so the
\* stored data is afterwards what it was before
stored_after_attach(stored, written) == stored

\* a closed ring around the rectangle from (x0, y0) to (x1, y1)
Rect(x0, y0, x1, y1) ==
    <<<<x0, y0>>, <<x1, y0>>, <<x1, y1>>, <<x0, y1>>, <<x0, y0>>>>

\* geometries of the features: two squares that overlap, a district of two
\* parts, and MultiPolygons without a position
GeomSquare == Polygon(<<Rect(0, 0, 4, 4)>>)
GeomShifted == Polygon(<<Rect(2, 2, 6, 6)>>)
GeomTwoParts == MultiPolygon(<<<<Rect(0, 0, 2, 2)>>, <<Rect(4, 4, 6, 6)>>>>)
GeomNoRings == MultiPolygon(<<<<>>>>)
GeomNoParts == MultiPolygon(<<>>)
\* small districts close to each other, and a district with a hole
GeomTriangle == Polygon(<<<<<<0, 0>>, <<1, 0>>, <<0, 1>>, <<0, 0>>>>>>)
GeomUnit == Polygon(<<Rect(0, 0, 1, 1)>>)
GeomHoled == Polygon(<<Rect(0, 0, 3, 3), Rect(1, 1, 2, 2)>>)
Geometries ==
    {GeomSquare, GeomShifted, GeomTwoParts, GeomNoRings, GeomNoParts,
     GeomTriangle, GeomUnit, GeomHoled}

MapFeature(name, geometry) == [district |-> name, geometry |-> geometry]
MapNames == {NameAbcd, NameAbce}
\* the boundary sets with geometry: the district names are pairwise different
MapBoundarySets ==
    {q \in SeqsUpTo({MapFeature(n, g) : n \in MapNames, g \in Geometries},
                    MaxCanon) :
        \A i, j \in 1..Len(q) : q[i].district = q[j].district => i = j}
\* the names a caller asks for: those of the features and one more
AskedNames == MapNames \cup {NameAbcdee}
Coords == 0..MaxCoord

MapInit ==
    /\ geojson \in MapBoundarySets
    /\ MatchIdle
    /\ NormIdle
    /\ RepIdle
    /\ MapIdle
    /\ AppIdle

\* app.py lines 511-516: a click on the map
ClickPoint ==
    /\ mu_pc = "idle"
    /\ \E lat \in Coords, lng \in Coords :
          /\ mu_arg' = <<lat, lng>>
          /\ mu_out' = get_district_from_coordinates(lat, lng, geojson)
    /\ mu_op' = "get_district_from_coordinates"
    /\ mu_pc' = "called"
    /\ UNCHANGED <<mu_out2, matchVars, normVars, repVars, appVars>>

\* the same click once more
ClickAgain ==
    /\ mu_pc = "called"
    /\ mu_op = "get_district_from_coordinates"
    /\ mu_out2' = get_district_from_coordinates(mu_arg[1], mu_arg[2], geojson)
    /\ mu_pc' = "recalled"
    /\ UNCHANGED <<mu_op, mu_arg, mu_out, matchVars, normVars, repVars,
                   appVars>>

AskBounds ==
    /\ mu_pc = "idle"
    /\ \E district_name \in AskedNames :
          /\ mu_arg' = district_name
          /\ mu_out' = get_district_bounds(geojson, district_name)
    /\ mu_op' = "get_district_bounds"
    /\ mu_pc' = "called"
    /\ UNCHANGED <<mu_out2, matchVars, normVars, repVars, appVars>>

AskCentroid ==
    /\ mu_pc = "idle"
    /\ \E district_name \in AskedNames :
          /\ mu_arg' = district_name
          /\ mu_out' \in get_district_centroid(geojson, district_name)
    /\ mu_op' = "get_district_centroid"
    /\ mu_pc' = "called"
    /\ UNCHANGED <<mu_out2, matchVars, normVars, repVars, appVars>>

\* app.py lines 411 and 867: the distance between two districts
AskDistance ==
    /\ mu_pc = "idle"
    /\ \E district1 \in AskedNames, district2 \in AskedNames :
          /\ mu_arg' = <<district1, district2>>
          /\ mu_out' \in calculate_distance_between_districts(
                             geojson, district1, district2)
    /\ mu_op' = "calculate_distance_between_districts"
    /\ mu_pc' = "called"
    /\ UNCHANGED <<mu_out2, matchVars, normVars, repVars, appVars>>

\* the distance of the same two districts, asked the other way round
AskDistanceBack ==
    /\ mu_pc = "called"
    /\ mu_op = "calculate_distance_between_districts"
    /\ mu_out2' \in calculate_distance_between_districts(
                        geojson, mu_arg[2], mu_arg[1])
    /\ mu_pc' = "recalled"
    /\ UNCHANGED <<mu_op, mu_arg, mu_out, matchVars, normVars, repVars,
                   appVars>>

\* app.py lines 797 and 872: the map of the route between two districts
AskDistanceMap ==
    /\ mu_pc = "idle"
    /\ \E district1 \in AskedNames, district2 \in AskedNames :
          /\ mu_arg' = <<district1, district2>>
          /\ mu_out' \in create_distance_map(geojson, district1, district2)
    /\ mu_op' = "create_distance_map"
    /\ mu_pc' = "called"
    /\ UNCHANGED <<mu_out2, matchVars, normVars, repVars, appVars>>

MapNext ==
    \/ ClickPoint
    \/ ClickAgain
    \/ AskBounds
    \/ AskCentroid
    \/ AskDistance
    \/ AskDistanceBack
    \/ AskDistanceMap

SpecMap == MapInit /\ [][MapNext]_vars

(***************************************************************************)
(* One MapUtils object and one DataProcessor used one call after another   *)
(* on the same boundary data: match_districts on an upload, the choropleth *)
(* map of the table it returned, and the lookups by point and by name.     *)
(***************************************************************************)
StoredBoundarySets ==
    {<<MapFeature(NameAbcd, GeomSquare), MapFeature(NameAbce, GeomTwoParts)>>,
     <<MapFeature(NameAbce, GeomHoled), MapFeature(NameAbcd, GeomShifted)>>,
     <<MapFeature(NameAbcd, GeomUnit)>>}

StoredInit ==
    /\ geojson \in StoredBoundarySets
    /\ MatchIdle
    /\ NormIdle
    /\ RepIdle
    /\ MapIdle
    /\ AppIdle

\* match_districts called with one of the two-row uploads
CallProbe ==
    /\ pc = "idle"
    /\ \E call \in ProbeCalls : Enter(call.df, call.col)

\* app.py line 498: the choropleth map of the table match_districts returned
CreateChoropleth ==
    /\ mu_pc = "idle"
    /\ pc = "done"
    /\ ~ret.none
    /\ \E metric_col \in {col \in ret.cols : dtype(ret, col) = "int64"} :
          LET made == create_choropleth_map(geojson, ret, metric_col)
          IN  /\ mu_arg' = <<ret, metric_col>>
              /\ mu_out' = Returned(made.map)
              /\ msgs' = IF made.error
                         THEN Append(msgs, Msg("error: no district column",
                                               NaN, NaN, 0, <<>>))
                         ELSE msgs
              /\ geojson' = stored_after_attach(geojson, made.written)
    /\ mu_op' = "create_choropleth_map"
    /\ mu_pc' = "called"
    /\ UNCHANGED <<pc, map_districts, map_districts_normalized, df,
                   district_col, matched_df, csv_districts, visited,
                   district_mapping, unmatched_districts, ret, mu_out2,
                   normVars, repVars, appVars>>

\* the caller is done with what a MapUtils method gave
MapDone ==
    /\ mu_pc # "idle"
    /\ mu_pc' = "idle"
    /\ mu_op' = "none"
    /\ mu_arg' = <<>>
    /\ mu_out' = NoOutcome
    /\ mu_out2' = NoOutcome
    /\ UNCHANGED <<matchVars, normVars, repVars, appVars>>

StoredNext ==
    \/ CallProbe
    \/ MatchKey
    \/ Finish
    \/ Return
    \/ CreateChoropleth
    \/ MapNext
    \/ MapDone

SpecStored == StoredInit /\ [][StoredNext]_vars

(***************************************************************************)
(* main() of app.py from the upload to its call of match_districts.        *)
(***************************************************************************)
\* the column names that hold one of the keywords of line 14
KeywordColumns == {"district", HelperNormalized, HelperMatched, AbsentColumn}

\* DataProcessor.find_district_columns
find_district_columns(d) ==
    IF d.cols \cap KeywordColumns # {} THEN d.cols \cap KeywordColumns
    ELSE d.cols

\* data_processor.py line 40: the parameters of match_districts after self,
\* none of which has a default
match_districts_parameters == <<"df", "district_col", "geojson_data">>

\* Python's binding of the arguments of a call: the positional arguments
\* fill the first parameters, every keyword must name one of the others,
\* and no parameter may be left without a value
binds(parameters, positional, keywords) ==
    /\ positional <= Len(parameters)
    /\ \A k \in keywords :
           \E i \in (positional + 1)..Len(parameters) : parameters[i] = k
    /\ \A i \in (positional + 1)..Len(parameters) : parameters[i] \in keywords

\* app.py lines 364-370 and 427-428: an uploaded file is read into df
MainUpload ==
    /\ main_pc = "start"
    /\ uploaded' \in ScenarioUploads
    /\ main_pc' = "uploaded"
    /\ UNCHANGED <<main_out, matchVars, normVars, repVars, mapVars>>

\* app.py lines 434-488: the district column and the metric column are
\* selected and match_districts(df, district_col, geojson_data,
\* verbose=False) is called; a call whose arguments do not bind raises
\* TypeError, which main() does not catch
MainMatch ==
    /\ main_pc = "uploaded"
    /\ find_district_columns(uploaded) # {}
    /\ {col \in uploaded.cols : dtype(uploaded, col) = "int64"} # {}
    /\ IF binds(match_districts_parameters, 3, {"verbose"})
       THEN /\ main_pc' = "calling"
            /\ main_out' = NoOutcome
       ELSE /\ main_pc' = "aborted"
            /\ main_out' = Raised("TypeError")
    /\ UNCHANGED <<uploaded, matchVars, normVars, repVars, mapVars>>

MainNext == MainUpload \/ MainMatch

SpecMain == Init /\ [][MainNext]_vars

(***************************************************************************)
(* Properties of match_districts.                                          *)
(***************************************************************************)
Range(q) == {q[i] : i \in 1..Len(q)}

\* the call got past the column check
Matching == pc \in {"loop", "done"} /\ district_col \in df.cols
\* the call returned a table
ReturnedTable == pc = "done" /\ ~ret.none

\* the keys the loop has visited so far
VisitedKeys == {csv_districts[i] : i \in 1..visited}
\* the canonical positions whose normalized key is k
ExactPositions(k) ==
    {i \in 1..Len(map_districts_normalized) : map_districts_normalized[i] = k}
\* the visited keys that the exact pass decides, and those left to the fuzzy pass
ExactKeys == {k \in VisitedKeys : k # <<>> /\ ExactPositions(k) # {}}
FuzzyKeys == {k \in VisitedKeys : k # <<>> /\ ExactPositions(k) = {}}

Least(S) == CHOOSE i \in S : \A j \in S : i <= j
Greatest(S) == CHOOSE i \in S : \A j \in S : i >= j

\* the similarity of every key an upload can hold and every normalized
\* canonical name, as line 76 computes it
Similarity ==
    [p \in {normalize_district_name(v) : v \in RawValues}
            \X {normalize_district_name(c) : c \in CanonNames} |->
        ratio(lower(p[1]), lower(p[2]))]
\* the similarity of key k and the canonical name at position i
ScoreAt(k, i) == Similarity[<<k, map_districts_normalized[i]>>]
\* the best similarity of key k over the boundary set (0 when it is empty)
BestScore(k) ==
    Greatest({0} \cup {ScoreAt(k, i) : i \in 1..Len(map_districts_normalized)})
\* the positions that reach the best similarity
BestPositions(k) ==
    LET best == BestScore(k)
    IN  {i \in 1..Len(map_districts_normalized) : ScoreAt(k, i) = best}

FuzzyNotices(k) ==
    {i \in 1..Len(msgs) : msgs[i].kind = "info: fuzzy matched" /\ msgs[i].key = k}

\* C1: every value in the district column of a returned table is a district
\* name of the boundary set, in its original spelling
C1_DistrictValuesCanonical ==
    ReturnedTable =>
        \A i \in 1..Len(ret.rows) :
            district_col \in ret.cols =>
                ret.rows[i].cells[district_col] \in Range(district_names(geojson))

\* C1 witness: a table is returned whose district column was rewritten from a
\* raw value that is no canonical name
C1_Witness ==
    /\ ReturnedTable
    /\ district_col \in ret.cols
    /\ \E i \in 1..Len(ret.rows) :
          /\ ret.rows[i].cells[district_col]
                 # df.rows[ret.rows[i].idx].cells[district_col]
          /\ ret.rows[i].cells[district_col] \in Range(district_names(geojson))

\* C2: a visited key equal to the normalized key of some canonical name is
\* mapped to the canonical name at the first such position, is not listed
\* as unmatched, and no fuzzy-match notice names it
C2_ExactPassFirst ==
    Matching =>
        \A k \in ExactKeys :
            /\ k \in DOMAIN district_mapping
            /\ district_mapping[k] = map_districts[Least(ExactPositions(k))]
            /\ k \notin Range(unmatched_districts)
            /\ FuzzyNotices(k) = {}

\* C2 witness: a visited key that is the normalized form of two canonical
\* names, mapped to the first of them, which is spelled differently from the
\* key, while the boundary set also holds a name that is no exact match
C2_Witness ==
    /\ Matching
    /\ \E k \in ExactKeys :
          /\ Cardinality(ExactPositions(k)) = 2
          /\ k \in DOMAIN district_mapping
          /\ district_mapping[k] # k
          /\ district_mapping[k] = map_districts[Least(ExactPositions(k))]

\* C2 witness of a competing candidate: an exact key, while another
\* canonical name is similar to it (similarity 80)
C2_WitnessCompeting ==
    /\ Matching
    /\ \E k \in ExactKeys :
          /\ k \in DOMAIN district_mapping
          /\ \E i \in 1..Len(map_districts_normalized) :
                i < Least(ExactPositions(k)) /\ ScoreAt(k, i) >= Threshold

\* C3: a key of the fuzzy pass whose best similarity is 80 or less is left
\* unmatched, and one whose best similarity is 81 or more is mapped
C3_StrictThreshold ==
    Matching =>
        \A k \in FuzzyKeys :
            LET best == BestScore(k)
            IN  /\ best <= 80 =>
                       k \notin DOMAIN district_mapping
                       /\ k \in Range(unmatched_districts)
                /\ best >= 81 =>
                       k \in DOMAIN district_mapping
                       /\ k \notin Range(unmatched_districts)

\* C3 witness: in one call a key with best similarity exactly 80 is left
\* unmatched and a key with best similarity above 80 is mapped
C3_Witness ==
    /\ Matching
    /\ \E k \in FuzzyKeys :
          BestScore(k) = 80 /\ k \in Range(unmatched_districts)
    /\ \E k \in FuzzyKeys :
          BestScore(k) > 80 /\ k \in DOMAIN district_mapping

\* C4: the canonical name chosen for a key of the fuzzy pass reaches the best
\* similarity over all canonical names, and the notice reports that score
C4_FuzzyPicksMaximum ==
    Matching =>
        \A k \in FuzzyKeys :
            k \in DOMAIN district_mapping =>
                LET best == BestScore(k)
                IN  /\ \E i \in 1..Len(map_districts) :
                          /\ map_districts[i] = district_mapping[k]
                          /\ ScoreAt(k, i) = best
                          /\ \A j \in 1..Len(map_districts) :
                                 ScoreAt(k, j) <= ScoreAt(k, i)
                    /\ \E n \in FuzzyNotices(k) :
                          /\ msgs[n].name = district_mapping[k]
                          /\ msgs[n].score = best

\* C4 witness: a fuzzy match whose best candidate comes after a candidate
\* that also scores above the threshold, but lower
C4_Witness ==
    /\ Matching
    /\ \E k \in FuzzyKeys :
          /\ k \in DOMAIN district_mapping
          /\ \E i, j \in 1..Len(map_districts_normalized) :
                /\ i < j
                /\ ScoreAt(k, i) > Threshold
                /\ ScoreAt(k, i) < ScoreAt(k, j)
                /\ map_districts[j] = district_mapping[k]

\* C5: when several canonical names reach the best similarity of a fuzzily
\* matched key, the key is mapped to the first of them in canonical order
C5_TieFirstInOrder ==
    Matching =>
        \A k \in FuzzyKeys :
            k \in DOMAIN district_mapping =>
                district_mapping[k] = map_districts[Least(BestPositions(k))]

\* C5 witness: a fuzzy match with two best candidates whose normalized forms
\* differ
C5_Witness ==
    /\ Matching
    /\ \E k \in FuzzyKeys :
          /\ k \in DOMAIN district_mapping
          /\ \E i, j \in BestPositions(k) :
                i < j /\ map_districts_normalized[i] # map_districts_normalized[j]

\* C5 witness of the shared normalized form: two best candidates with the
\* same normalized form
C5_WitnessShared ==
    /\ Matching
    /\ \E k \in FuzzyKeys :
          /\ k \in DOMAIN district_mapping
          /\ \E i, j \in BestPositions(k) :
                i < j /\ map_districts_normalized[i] = map_districts_normalized[j]

\* the call ran to its end on a table that has the district column
Completed == pc = "done" /\ district_col \in df.cols

\* the normalized key of input row i, and whether the loop mapped it
RowKey(i) == normalize_district_name(df.rows[i].cells[district_col])
RowMapped(i) == RowKey(i) \in DOMAIN district_mapping
\* how often input row i (by its index label) occurs in the returned table
Copies(i) == Cardinality({j \in 1..Len(ret.rows) : ret.rows[j].idx = i})

\* C6: an input row is in the returned table exactly when its key was
\* mapped, and then exactly once per occurrence in the input: rows with equal
\* contents and rows mapped to the same canonical name are all kept
C6_RowsKeptIffMapped ==
    Completed =>
        /\ \A i \in 1..Len(df.rows) :
              Copies(i) = IF RowMapped(i) THEN 1 ELSE 0
        /\ \A j \in 1..Len(ret.rows) : ret.rows[j].idx \in 1..Len(df.rows)

\* C6 witness: a returned table that keeps one input row and lacks another
C6_Witness ==
    /\ Completed
    /\ ~ret.none
    /\ \E i, j \in 1..Len(df.rows) :
          RowMapped(i) /\ Copies(i) = 1 /\ ~RowMapped(j) /\ Copies(j) = 0

\* C6 witness of duplicates: two input rows with equal contents are both kept
C6_WitnessDuplicates ==
    /\ Completed
    /\ \E i, j \in 1..Len(df.rows) :
          /\ i < j
          /\ df.rows[i].cells = df.rows[j].cells
          /\ Copies(i) = 1 /\ Copies(j) = 1

\* C6 witness of many-to-one: two rows with different keys, mapped to the
\* same canonical name, are both kept
C6_WitnessManyToOne ==
    /\ Completed
    /\ \E i, j \in 1..Len(df.rows) :
          /\ RowKey(i) # RowKey(j)
          /\ RowMapped(i) /\ RowMapped(j)
          /\ district_mapping[RowKey(i)] = district_mapping[RowKey(j)]
          /\ Copies(i) = 1 /\ Copies(j) = 1

\* C7: the rows of a returned table are in the order of the input, and each
\* carries every column of its input row other than the district column
\* with the value it has there
C7_OrderAndPayloadKept ==
    ReturnedTable =>
        /\ \A i, j \in 1..Len(ret.rows) :
              i < j => ret.rows[i].idx < ret.rows[j].idx
        /\ \A j \in 1..Len(ret.rows) :
              \A c \in df.cols \ {district_col} :
                  /\ c \in ret.cols
                  /\ ret.rows[j].cells[c] = df.rows[ret.rows[j].idx].cells[c]

\* C7, the part the code keeps: the order of the input, and the input's
\* value in every column that the returned table still has
C7_OrderAndSurvivingPayloadKept ==
    ReturnedTable =>
        /\ \A i, j \in 1..Len(ret.rows) :
              i < j => ret.rows[i].idx < ret.rows[j].idx
        /\ \A j \in 1..Len(ret.rows) :
              \A c \in ret.cols \ {district_col} :
                  /\ c \in df.cols
                  /\ ret.rows[j].cells[c] = df.rows[ret.rows[j].idx].cells[c]

\* C8: a returned table has exactly the columns of the input table
C8_SameColumns == ReturnedTable => ret.cols = df.cols

\* C8, the part the code keeps: no column is added, and a column is missing
\* only if it bears the name of one of the two helper columns
C8_OnlyHelperNamesLost ==
    ReturnedTable =>
        /\ ret.cols \subseteq df.cols
        /\ df.cols \ ret.cols \subseteq {HelperNormalized, HelperMatched}
        /\ ret.cols = df.cols \ {HelperNormalized, HelperMatched}

(***************************************************************************)
(* Properties of normalize_district_name.                                  *)
(***************************************************************************)
\* C9: normalizing a normalized key gives the same key
C9_Idempotent == nm_pc = "twice" => nm_key2 = nm_key

\* C10: two raw names that differ only in letter case have the same key
\* (the name that was normalized, against every input spelled like it)
C10_CaseOnlyDifferenceSameKey ==
    (nm_pc # "start" /\ ~isna(nm_in)) =>
        \A t \in NameInputs \ {NaN} :
            lower(t) = lower(nm_in) => normalize_district_name(t) = nm_key

\* the positions of s where old occurs
Occurrences(s, old) == {i \in 1..Len(s) : OccursAt(s, i, old)}
\* whether s ends with old, and whether s starts with old
EndsWith(s, old) == Len(s) >= Len(old) /\ OccursAt(s, Len(s) - Len(old) + 1, old)
StartsWith(s, old) == OccursAt(s, 1, old)
\* an occurrence of a suffix word before the end of the trimmed name, or of
\* a prefix word after its start
InteriorSuffixAt(s, i) ==
    \E old \in {SuffixCap, SuffixLow} :
        OccursAt(s, i, old) /\ i + Len(old) - 1 < Len(s)
InteriorPrefixAt(s, i) ==
    \E old \in {PrefixCap, PrefixLow} : OccursAt(s, i, old) /\ i > 1
HasInteriorAffix(s) ==
    \E i \in 1..Len(s) : InteriorSuffixAt(s, i) \/ InteriorPrefixAt(s, i)

\* C11: an affix word inside the trimmed name (a suffix word that does not
\* end it, a prefix word that does not start it) is left in the key: the
\* key of such a name still holds the word District
C11_InteriorAffixKept ==
    (nm_pc # "start" /\ ~isna(nm_in)) =>
        (HasInteriorAffix(strip(nm_in)) =>
            Occurrences(nm_key, WordDistrictCap) # {})

\* C11, the part the code keeps: a trimmed name that ends with a suffix word
\* or starts with a prefix word has a key that no longer ends or starts
\* with that word
C11_OuterAffixRemoved ==
    (nm_pc # "start" /\ ~isna(nm_in)) =>
        LET s == strip(nm_in)
        IN  /\ (EndsWith(s, SuffixCap) \/ EndsWith(s, SuffixLow)) =>
                   ~EndsWith(nm_key, SuffixCap)
            /\ (StartsWith(s, PrefixCap) \/ StartsWith(s, PrefixLow)) =>
                   ~StartsWith(nm_key, PrefixCap)

(***************************************************************************)
(* Properties of match_districts on blank district values.                 *)
(***************************************************************************)
\* a district value that is missing, empty or whitespace only
IsBlankValue(v) == isna(v) \/ strip(v) = <<>>
\* the input rows with a blank district value
BlankRows ==
    {i \in 1..Len(df.rows) : IsBlankValue(df.rows[i].cells[district_col])}

\* C12: a row whose district value is missing, empty or whitespace only has
\* the empty key; the empty key is never mapped or listed, and no such row is
\* in the returned table, also when a canonical name has the empty key
C12_BlankNeverMatched ==
    Matching =>
        /\ <<>> \notin DOMAIN district_mapping
        /\ <<>> \notin Range(unmatched_districts)
        /\ \A i \in BlankRows :
              /\ RowKey(i) = <<>>
              /\ pc = "done" => Copies(i) = 0

\* C12 witness: a table is returned from an upload with a whitespace-only
\* row, against a boundary set one of whose names has the empty key
C12_Witness ==
    /\ Completed
    /\ ~ret.none
    /\ \E i \in 1..Len(map_districts_normalized) :
          map_districts_normalized[i] = <<>> /\ map_districts[i] # <<>>
    /\ \E i \in BlankRows :
          ~isna(df.rows[i].cells[district_col]) /\ Copies(i) = 0

\* C12 witness of the missing value: the same with a row whose value is NaN
C12_WitnessMissing ==
    /\ Completed
    /\ ~ret.none
    /\ \E i \in 1..Len(map_districts_normalized) :
          map_districts_normalized[i] = <<>>
    /\ \E i \in BlankRows :
          isna(df.rows[i].cells[district_col]) /\ Copies(i) = 0

(***************************************************************************)
(* Properties of the failures and reports of match_districts.              *)
(***************************************************************************)
\* the call ended on a table that lacks the requested column
ColumnMissing == pc = "done" /\ district_col \notin df.cols
\* the positions of the messages of one kind
MsgsOfKind(kind) == {i \in 1..Len(msgs) : msgs[i].kind = kind}
Warnings == MsgsOfKind("warning: could not match")
NoMatchErrors == MsgsOfKind("error: no districts matched")
AllFuzzyNotices == MsgsOfKind("info: fuzzy matched")

\* C13: a call that names a column the table lacks shows the column-not-found
\* error and nothing else, returns None, and does no matching: no copy, no
\* key visited, no mapping, no unmatched name
C13_AbsentColumnFails ==
    ColumnMissing =>
        /\ ret.none
        /\ msgs = <<ColumnNotFound>>
        /\ AllFuzzyNotices = {} /\ Warnings = {}
        /\ matched_df.none
        /\ visited = 0
        /\ district_mapping = EmptyDict
        /\ unmatched_districts = <<>>

\* C13 witness: the column is absent from a table with rows, one of which
\* holds a name the boundary set would match
C13_Witness ==
    /\ ColumnMissing
    /\ msgs = <<ColumnNotFound>>
    /\ \E i \in 1..Len(df.rows) :
          normalize_district_name(df.rows[i].cells[DistrictColumnOf(df)])
              \in Range(normalized_names(district_names(geojson)))

\* no input row has a mapped key (the table may have no rows at all)
NoRowMapped == \A i \in 1..Len(df.rows) : ~RowMapped(i)
\* the distinct non-empty keys of the district column, in order
NamedKeys == FilterSeq(csv_districts,
                       [i \in 1..Len(csv_districts) |-> csv_districts[i] # <<>>])

\* C14: when the column exists and no row resolves, the no-matches error is
\* shown and an empty table is returned, with every unmatched name listed
C14_EmptyTableReturned ==
    (Completed /\ NoRowMapped) =>
        /\ NoMatchErrors # {}
        /\ ~ret.none /\ ret.rows = <<>>
        /\ unmatched_districts = NamedKeys

\* C14, the part the code keeps: the no-matches error is the last message
\* and is shown exactly then, None is returned, and the unmatched names, if
\* any, are shown in one warning before it
C14_NoMatchesSignalled ==
    Completed =>
        /\ NoRowMapped <=> NoMatchErrors # {}
        /\ NoRowMapped <=> ret.none
        /\ NoRowMapped =>
              /\ msgs[Len(msgs)] = NoMatches
              /\ Cardinality(NoMatchErrors) = 1
              /\ unmatched_districts = NamedKeys
              /\ unmatched_districts # <<>> =>
                     msgs[Len(msgs) - 1] = UnmatchedWarning(unmatched_districts)

\* the names the call reported as unmatched
ReportedUnmatched ==
    UNION {Range(msgs[n].names) : n \in Warnings}

\* C15: the key of every input row that is not in the result of a completed
\* call is among the names the call reported as unmatched
C15_DroppedRowsReported ==
    Completed =>
        \A i \in 1..Len(df.rows) :
            Copies(i) = 0 => RowKey(i) \in ReportedUnmatched

\* C15, the part the code keeps: a dropped row whose key is not empty has
\* its key in the warning
C15_NamedDroppedRowsReported ==
    Completed =>
        \A i \in 1..Len(df.rows) :
            (Copies(i) = 0 /\ RowKey(i) # <<>>) =>
                RowKey(i) \in ReportedUnmatched

\* C16: every visited non-empty key is either a key of the mapping or an
\* entry of the unmatched list, never both; the mapping and the list hold
\* nothing else, and the list has no entry twice
C16_KeysPartitioned ==
    Matching =>
        /\ \A k \in VisitedKeys \ {<<>>} :
              (k \in DOMAIN district_mapping) # (k \in Range(unmatched_districts))
        /\ DOMAIN district_mapping \cup Range(unmatched_districts)
               = VisitedKeys \ {<<>>}
        /\ \A i, j \in 1..Len(unmatched_districts) :
              unmatched_districts[i] = unmatched_districts[j] => i = j
        /\ pc = "done" => VisitedKeys = Range(csv_districts)

\* C16 witness: after the loop one key is mapped, by the fuzzy pass, and
\* another is unmatched
C16_Witness ==
    /\ pc = "loop" /\ visited = Len(csv_districts)
    /\ \E k \in FuzzyKeys : k \in DOMAIN district_mapping
    /\ unmatched_districts # <<>>

\* C16 witness of the repeated key: an unmatched key that stands in two rows
C16_WitnessRepeated ==
    /\ pc = "loop" /\ visited = Len(csv_districts)
    /\ \E i, j \in 1..Len(df.rows) :
          /\ i < j
          /\ RowKey(i) = RowKey(j)
          /\ RowKey(i) \in Range(unmatched_districts)

ProbeCalled == pc = "done" /\ df = probe.df /\ district_col = probe.col

ClickedPosition == <<mu_arg[2], mu_arg[1]>>
\* the positions of the features whose geometry contains the clicked point
Containing ==
    {i \in 1..Len(geojson) : contains(geojson[i].geometry, ClickedPosition)}
Clicked == mu_op = "get_district_from_coordinates" /\ mu_pc # "idle"

\* C19: a click gives the name of the first feature, in the order of the
\* boundary set, whose geometry contains the point, and None when there is
\* none; the same click made again gives the same
C19_FirstContainingFeature ==
    Clicked =>
        /\ mu_out = IF Containing = {} THEN Returned(None)
                    ELSE Returned(geojson[Least(Containing)].district)
        /\ mu_pc = "recalled" => mu_out2 = mu_out

\* C19 witness: the point lies in two features and the click, made twice,
\* gives the first of them
C19_Witness ==
    /\ Clicked
    /\ mu_pc = "recalled"
    /\ Cardinality(Containing) = 2
    /\ mu_out2 = Returned(geojson[Least(Containing)].district)

\* C19 witness of the miss: the point is on the border of a feature and in
\* no feature, and the click gives None
C19_WitnessNone ==
    /\ Clicked
    /\ Containing = {}
    /\ \E i \in 1..Len(geojson) :
          /\ geojson[i].geometry.type = "Polygon"
          /\ OnRing(ClickedPosition, geojson[i].geometry.coordinates[1])
    /\ mu_out = Returned(None)

AskedByName ==
    mu_pc # "idle" /\ mu_op \in {"get_district_bounds", "get_district_centroid"}
KnownName == mu_arg \in Range(district_names(geojson))

C20_NoneForUnknownName ==
    AskedByName =>
        /\ ~KnownName => mu_out = Returned(None)
        /\ (KnownName /\ ~is_empty(geojson[first_named(geojson, mu_arg)].geometry))
               => (mu_out.out = "return" /\ mu_out.val # None)

(***************************************************************************)
(* The distance between two districts.                                     *)
(***************************************************************************)
DistanceAsked ==
    mu_pc # "idle" /\ mu_op = "calculate_distance_between_districts"
BothKnown ==
    /\ mu_arg[1] \in Range(district_names(geojson))
    /\ mu_arg[2] \in Range(district_names(geojson))
GeometryOf(district_name) ==
    geojson[first_named(geojson, district_name)].geometry
\* the value is a float other than nan
IsNumber(v) == v # None /\ ~is_nan(v)

C21_NumberForDistrictsWithPositions ==
    DistanceAsked =>
        /\ (BothKnown /\ ~is_empty(GeometryOf(mu_arg[1]))
                      /\ ~is_empty(GeometryOf(mu_arg[2])))
               => (mu_out.out = "return" /\ IsNumber(mu_out.val))
        /\ (~BothKnown /\ mu_out.out = "return") => mu_out.val = None

(***************************************************************************)
(* The bounding box of a district.                                         *)
(***************************************************************************)
BoxReturned ==
    /\ mu_pc # "idle"
    /\ mu_op = "get_district_bounds"
    /\ mu_arg \in Range(district_names(geojson))
    /\ mu_out.out = "return"
    /\ mu_out.val # None
\* every vertex of every ring of every polygon of the geometry
Vertices(geometry) == Range(flatten(flatten(parts(geometry))))

\* C22: the box of a known district spans every vertex of every ring of
\* every part of its geometry, each bound is the coordinate of some vertex,
\* and each minimum is at most its maximum
C22_BoxSpansAllParts ==
    BoxReturned =>
        LET b == mu_out.val
            vs == Vertices(GeometryOf(mu_arg))
        IN  /\ \A v \in vs : /\ b.min_lat <= v[2] /\ v[2] <= b.max_lat
                             /\ b.min_lng <= v[1] /\ v[1] <= b.max_lng
            /\ \E v \in vs : v[2] = b.min_lat
            /\ \E v \in vs : v[2] = b.max_lat
            /\ \E v \in vs : v[1] = b.min_lng
            /\ \E v \in vs : v[1] = b.max_lng
            /\ b.min_lat <= b.max_lat
            /\ b.min_lng <= b.max_lng

\* C22 witness: the box of a district of two parts reaches from the first
\* part to the second
C22_Witness ==
    /\ BoxReturned
    /\ GeometryOf(mu_arg) = GeomTwoParts
    /\ mu_out.val = [min_lat |-> 0, max_lat |-> 6, min_lng |-> 0, max_lng |-> 6]

\* C22, a Polygon with a hole: the box is that of the exterior ring
C22_WitnessHole ==
    /\ BoxReturned
    /\ GeometryOf(mu_arg) = GeomHoled
    /\ mu_out.val = [min_lat |-> 0, max_lat |-> 3, min_lng |-> 0, max_lng |-> 3]

\* both directions were asked and each gave a number
DistanceBothWays ==
    /\ mu_pc = "recalled"
    /\ mu_op = "calculate_distance_between_districts"
    /\ mu_out.out = "return" /\ IsNumber(mu_out.val)
    /\ mu_out2.out = "return" /\ IsNumber(mu_out2.val)

\* C23: the distance from a to b is the distance from b to a (they are
\* equal, so within every tolerance), and the distance from a district to
\* itself is 0
C23_SymmetricZeroOnDiagonal ==
    /\ DistanceBothWays => mu_out2.val = mu_out.val
    /\ (DistanceAsked /\ mu_arg[1] = mu_arg[2]
          /\ mu_out.out = "return" /\ IsNumber(mu_out.val))
           => mu_out.val = Fixed(0)

\* C23 witness: two different districts at different latitudes, a positive
\* distance both ways
C23_Witness ==
    /\ DistanceBothWays
    /\ mu_arg[1] # mu_arg[2]
    /\ centroid(GeometryOf(mu_arg[1]))[1] # centroid(GeometryOf(mu_arg[2]))[1]
    /\ mu_out.val.units > 0
    /\ mu_out2.val.units > 0

\* C23, the diagonal: a known district against itself
C23_WitnessDiagonal ==
    /\ DistanceAsked
    /\ mu_arg[1] = mu_arg[2]
    /\ mu_out = Returned(Fixed(0))

(***************************************************************************)
(* The map of the route between two districts.                             *)
(***************************************************************************)
DistanceMapAsked == mu_pc # "idle" /\ mu_op = "create_distance_map"
DistanceMapReturned ==
    DistanceMapAsked /\ mu_out.out = "return" /\ mu_out.val.kind = "distance"
\* the bucket of a distance given in kilometres times Scale
Bucket(units) ==
    IF units < 50 * Scale THEN 10
    ELSE IF 50 * Scale <= units /\ units < 100 * Scale THEN 9
    ELSE IF 100 * Scale <= units /\ units < 200 * Scale THEN 8
    ELSE 7
\* the distance maps of the other pairs of districts of the boundary set
OtherDistanceMaps ==
    {o.val : o \in {x \in UNION {create_distance_map(geojson, a, b) :
                                    a \in AskedNames, b \in AskedNames} :
                       x.out = "return" /\ x.val.kind = "distance"}}

\* C29: the zoom of a distance map is the bucket of its distance, a greater
\* distance never has a greater zoom, the distance is the one that
\* calculate_distance_between_districts returns for the pair, and with a
\* name of no feature the basic map is returned
C29_ZoomByDistanceBucket ==
    /\ DistanceMapReturned =>
          /\ BothKnown
          /\ mu_out.val.zoom_start = Bucket(mu_out.val.distance.units)
          /\ \A m \in OtherDistanceMaps :
                 m.distance.units >= mu_out.val.distance.units
                     => m.zoom_start <= mu_out.val.zoom_start
          /\ Returned(mu_out.val.distance) \in
                 calculate_distance_between_districts(
                     geojson, mu_arg[1], mu_arg[2])
    /\ (DistanceMapAsked /\ ~BothKnown /\ mu_out.out = "return")
           => mu_out.val = create_basic_map

\* C29 witnesses: a distance map in each of the four buckets, and the basic
\* map for a name of no feature
C29_Witness ==
    /\ DistanceMapReturned
    /\ mu_out.val.distance.units >= 50 * Scale
    /\ mu_out.val.distance.units < 100 * Scale
    /\ mu_out.val.zoom_start = 9
C29_WitnessNear ==
    /\ DistanceMapReturned
    /\ mu_arg[1] # mu_arg[2]
    /\ mu_out.val.distance.units < 50 * Scale
    /\ mu_out.val.zoom_start = 10
C29_WitnessFar ==
    /\ DistanceMapReturned
    /\ mu_out.val.distance.units >= 100 * Scale
    /\ mu_out.val.distance.units < 200 * Scale
    /\ mu_out.val.zoom_start = 8
C29_WitnessFarthest ==
    /\ DistanceMapReturned
    /\ mu_out.val.distance.units >= 200 * Scale
    /\ mu_out.val.zoom_start = 7
C29_WitnessBasic ==
    /\ DistanceMapAsked
    /\ ~BothKnown
    /\ mu_out = Returned(create_basic_map)

C24_WitnessNoRow ==
    /\ mu_pc = "called"
    /\ mu_op = "create_choropleth_map"
    /\ mu_out.val.kind = "choropleth"
    /\ \E i \in 1..Len(geojson) :
          /\ mu_out.val.features[i][mu_arg[2]] = None
          /\ mu_arg[2] \notin DOMAIN geojson[i]

C25_WitnessColumnMissing ==
    ColumnMissing /\ df = uploaded /\ df.rows # <<>>
C25_WitnessNoMatches ==
    /\ Completed
    /\ ret.none
    /\ df = uploaded
    /\ df.rows # <<>>
    /\ matched_df.rows = <<>>

(***************************************************************************)
(* Rows of one key, and the two example names.                             *)
(***************************************************************************)
\* the rows of the returned table that came from row i of the input
KeptFrom(i) ==
    IF ret.none THEN {}
    ELSE {k \in 1..Len(ret.rows) : ret.rows[k].idx = df.rows[i].idx}
RawValue(i) == df.rows[i].cells[district_col]

\* C26: two rows whose raw values have the same normalized key are both
\* dropped, or both kept and rewritten to the same canonical name
C26_SameKeySameOutcome ==
    Completed =>
        \A i, j \in 1..Len(df.rows) :
            RowKey(i) = RowKey(j) =>
                /\ (KeptFrom(i) = {}) <=> (KeptFrom(j) = {})
                /\ \A k \in KeptFrom(i), l \in KeptFrom(j) :
                       ret.rows[k].cells[district_col] =
                           ret.rows[l].cells[district_col]

\* C26 witness: two rows of different raw values and one key, both kept and
\* both rewritten to the same name
C26_Witness ==
    /\ Completed
    /\ \E i, j \in 1..Len(df.rows) :
          /\ RawValue(i) # RawValue(j)
          /\ RowKey(i) = RowKey(j)
          /\ KeptFrom(i) # {}
          /\ KeptFrom(j) # {}

\* C26, both dropped: two rows of different raw values and one key that
\* matched no canonical name
C26_WitnessDropped ==
    /\ Completed
    /\ \E i, j \in 1..Len(df.rows) :
          /\ RawValue(i) # RawValue(j)
          /\ RowKey(i) = RowKey(j)
          /\ RowKey(i) \in Range(unmatched_districts)
          /\ KeptFrom(i) = {}
          /\ KeptFrom(j) = {}

\* the rows that hold the raw value
RowsOf(raw) == {i \in 1..Len(df.rows) : RawValue(i) = raw}
\* the canonical name is the first feature that has its normalized key
FirstOfItsKey(name) ==
    /\ name \in Range(map_districts)
    /\ map_districts[index(map_districts_normalized,
                           normalize_district_name(name))] = name

KeyAbcde == normalize_district_name(RawAbcde)

C30_MatchCallCompletes ==
    main_pc # "aborted" /\ main_out.out # "raise"

\* C30, what the code does: whenever main() reaches the call it ends there
\* with TypeError, and match_districts is never entered
C30_CallRaisesTypeError ==
    /\ main_pc \in {"start", "uploaded", "aborted"}
    /\ main_pc = "aborted" => main_out = Raised("TypeError")
    /\ pc = "idle"

=============================================================================
